---- MODULE Spec2Model ----
(***************************************************************************)
(* Model of simple_fastqc.py: the FastQC report parser                     *)
(* (FastQCResults.parse_from_file), the module registry and the three      *)
(* module classes (FastQCModule, OverrepresentedSequencesModule,           *)
(* BasicStatisticsModule).                                                 *)
(*                                                                         *)
(* Text is a sequence of characters.  A character is a TLA+ string: the    *)
(* special characters ">", "#", ".", " ", "\t", "\n", the digits, and      *)
(* words such as "pass" or "Sanger" that stand for themselves (a run of    *)
(* letters holding none of the special characters).                        *)
(***************************************************************************)
EXTENDS Integers, Sequences, FiniteSets

(***************************************************************************)
(* Bounds of the model.                                                    *)
(***************************************************************************)
\* Number of lines of a report read by one parse.
MaxLines == 6
\* Number of lines of a body handed directly to BasicStatisticsModule.from_module.
MaxKVLines == 3
\* Number of read files of a FastQCAnalysis.
MaxPaths == 2
\* Number of reads of the results property of a FastQCAnalysis.
MaxReads == 3
\* Number of lines read by each of two interleaved parses.
MaxInterleavedLines == 3

(***************************************************************************)
(* Python str operations used by the code.                                 *)
(***************************************************************************)
TAB == "\t"
NL == "\n"
\* The characters str.rstrip() removes.
Whitespace == {" ", TAB, NL}

RECURSIVE rstrip(_)
rstrip(s) ==
    IF s = <<>> THEN <<>>
    ELSE IF s[Len(s)] \in Whitespace THEN rstrip(SubSeq(s, 1, Len(s) - 1))
    ELSE s

RECURSIVE lstrip(_)
lstrip(s) ==
    IF s = <<>> THEN <<>>
    ELSE IF s[1] \in Whitespace THEN lstrip(Tail(s))
    ELSE s

strip(s) == lstrip(rstrip(s))

startswith(s, p) == Len(s) >= Len(p) /\ SubSeq(s, 1, Len(p)) = p

removeprefix(s, p) == IF startswith(s, p) THEN SubSeq(s, Len(p) + 1, Len(s)) ELSE s

\* s.split(c): the pieces of s between the occurrences of the character c.
RECURSIVE split(_, _)
split(s, c) ==
    IF \A i \in 1..Len(s) : s[i] # c THEN <<s>>
    ELSE LET i == CHOOSE j \in 1..Len(s) :
                      s[j] = c /\ \A k \in 1..(j - 1) : s[k] # c
         IN  <<SubSeq(s, 1, i - 1)>> \o split(SubSeq(s, i + 1, Len(s)), c)

\* c.join(ls)
RECURSIVE join(_, _)
join(ls, c) ==
    IF ls = <<>> THEN <<>>
    ELSE IF Len(ls) = 1 THEN ls[1]
    ELSE ls[1] \o <<c>> \o join(Tail(ls), c)

\* s.splitlines(): no line for the empty string, and no empty last line after
\* a final line break.
splitlines(s) ==
    IF s = <<>> THEN <<>>
    ELSE LET p == split(s, NL)
         IN  IF p[Len(p)] = <<>> THEN SubSeq(p, 1, Len(p) - 1) ELSE p

(***************************************************************************)
(* Python values.                                                          *)
(***************************************************************************)
\* Optional values: None is the empty tuple, a value v is <<v>>.
None == <<>>
Some(v) == <<v>>

StrVal(s) == [type |-> "str", str |-> s]
IntVal(n) == [type |-> "int", int |-> n]

\* The outcome of a call: a returned value or a raised exception.
Return(v) == [ok |-> TRUE, val |-> v]
Raise(e) == [ok |-> FALSE, exc |-> e]

DigitChars == <<"0", "1", "2", "3", "4", "5", "6", "7", "8", "9">>
IsDigit(c) == \E i \in 1..Len(DigitChars) : DigitChars[i] = c
DigitValue(c) == (CHOOSE i \in 1..Len(DigitChars) : DigitChars[i] = c) - 1

RECURSIVE DecimalValue(_)
DecimalValue(s) ==
    IF s = <<>> THEN 0
    ELSE 10 * DecimalValue(SubSeq(s, 1, Len(s) - 1)) + DigitValue(s[Len(s)])

RECURSIVE Pow10(_)
Pow10(n) == IF n = 0 THEN 1 ELSE 10 * Pow10(n - 1)

\* int(s): surrounding whitespace is ignored, then decimal digits only.
int_parses(s) ==
    LET t == strip(s) IN t # <<>> /\ \A i \in 1..Len(t) : IsDigit(t[i])
int(s) == DecimalValue(strip(s))

\* float(s): surrounding whitespace is ignored, then digits with at most one
\* point and at least one digit.  The value is num / 10^scale.
float_parses(s) ==
    LET t == strip(s)
        p == split(t, ".")
    IN  /\ Len(p) <= 2
        /\ \A i \in 1..Len(t) : IsDigit(t[i]) \/ t[i] = "."
        /\ \E i \in 1..Len(t) : IsDigit(t[i])
float(s) ==
    LET p == split(strip(s), ".")
    IN  IF Len(p) = 1 THEN [num |-> DecimalValue(p[1]), scale |-> 0]
        ELSE [num |-> DecimalValue(p[1] \o p[2]), scale |-> Len(p[2])]
\* as_int == as_float
int_eq_float(n, f) == n * Pow10(f.scale) = f.num

(***************************************************************************)
(* FastQCModule and its subclasses.                                        *)
(***************************************************************************)
\* The dataclass: an instance of class cls with the three attributes.
FastQCModule(cls, name, data, status) ==
    [cls |-> cls, name |-> name, data |-> data, status |-> status]

\* FastQCModule.from_module that forgets to copy the data.
FastQCModule_from_module_no_data(module) ==
    Return(FastQCModule("FastQCModule", module.name, None, module.status))

\* FastQCModule.from_module: a copy of the module.
FastQCModule_from_module(module) ==
    Return(FastQCModule("FastQCModule", module.name, module.data, module.status))

\* read_csv_or_empty without the test for the empty string: pandas raises
\* EmptyDataError on it.
read_csv_or_empty_no_test(data, parses) ==
    IF data # <<>> /\ parses
    THEN LET ls == splitlines(data)
             header == split(ls[1], TAB)
         IN  Return(Some([columns |-> [i \in 1..Len(header) |->
                                          removeprefix(header[i], <<"#">>)],
                          rows |-> [i \in 1..(Len(ls) - 1) |->
                                          split(ls[i + 1], TAB)]]))
    ELSE Raise("ParserError")

\* read_csv_or_empty: None for the empty string.  Otherwise pandas parses the
\* text as a tab-separated table with a header line (columns renamed with
\* removeprefix("#")), or raises when it cannot (parses): pandas decides that.
read_csv_or_empty(data, parses) ==
    IF data # <<>>
    THEN IF parses
         THEN LET ls == splitlines(data)
                  header == split(ls[1], TAB)
              IN  Return(Some([columns |-> [i \in 1..Len(header) |->
                                               removeprefix(header[i], <<"#">>)],
                               rows |-> [i \in 1..(Len(ls) - 1) |->
                                               split(ls[i + 1], TAB)]]))
         ELSE Raise("ParserError")
    ELSE Return(None)

\* from_module that builds the module with a status of its own.
OverrepresentedSequencesModule_from_module_own_status(module, parses) ==
    LET table == read_csv_or_empty(module.data, parses)
    IN  IF table.ok
        THEN Return(FastQCModule("OverrepresentedSequencesModule",
                                 module.name, table.val, <<"pass">>))
        ELSE table

OverrepresentedSequencesModule_from_module(module, parses) ==
    LET table == read_csv_or_empty(module.data, parses)
    IN  IF table.ok
        THEN Return(FastQCModule("OverrepresentedSequencesModule",
                                 module.name, table.val, module.status))
        ELSE table

\* The try block of BasicStatisticsModule.from_module on one value.
coerce(v) ==
    IF ~int_parses(v) THEN StrVal(v)
    ELSE IF ~float_parses(v) THEN StrVal(v)
    ELSE IF int_eq_float(int(v), float(v)) THEN IntVal(int(v))
    ELSE StrVal(v)

\* dict(pairs): the last pair with a key gives the key's value.
dict(pairs) ==
    [k \in {pairs[i][1] : i \in 1..Len(pairs)} |->
        pairs[CHOOSE i \in 1..Len(pairs) :
                  /\ pairs[i][1] = k
                  /\ \A j \in (i + 1)..Len(pairs) : pairs[j][1] # k][2]]

FastQCKey == <<"FastQC">>
CommentFastQCKey == <<"#", "#", "FastQC">>

\* A dict() that takes the first two items of a longer element.
dict_accepts_two_or_more(pair) == Len(pair) >= 2

\* dict() takes an element of its argument as a (key, value) pair only if the
\* element has exactly two items.
dict_accepts(pair) == Len(pair) = 2

\* A test for "##" in the place of "#".
is_comment_key_double(k) == startswith(k, <<"#", "#">>)

\* k.startswith("#")
is_comment_key(k) == startswith(k, <<"#">>)

BasicStatisticsModule_from_module(module) ==
    LET ls == splitlines(module.data)
        pairs == [i \in 1..Len(ls) |-> split(ls[i], TAB)]
    IN  IF \E i \in 1..Len(pairs) : ~dict_accepts(pairs[i]) THEN Raise("ValueError")
        ELSE LET data_dict == dict(pairs)
             IN  IF CommentFastQCKey \notin DOMAIN data_dict THEN Raise("KeyError")
                 ELSE LET with_version ==
                              [k \in DOMAIN data_dict \cup {FastQCKey} |->
                                  IF k = FastQCKey THEN data_dict[CommentFastQCKey]
                                  ELSE data_dict[k]]
                          keys == DOMAIN with_version
                          fields ==
                              [k \in {x \in keys : ~is_comment_key(x)} |->
                                  coerce(with_version[k])]
                      IN  Return(FastQCModule("BasicStatisticsModule",
                                              module.name, fields, module.status))

(***************************************************************************)
(* The registry and the dispatch of parse_from_file.                       *)
(***************************************************************************)
OverrepresentedName == <<"Overrepresented", " ", "sequences">>
BasicStatisticsName == <<"Basic", " ", "Statistics">>

\* FastQCResults.module_classes
module_classes ==
    [n \in {OverrepresentedName, BasicStatisticsName} |->
        IF n = OverrepresentedName THEN "OverrepresentedSequencesModule"
        ELSE "BasicStatisticsModule"]

\* cls.module_classes.get(name, FastQCModule)
module_classes_get(name) ==
    IF name \in DOMAIN module_classes THEN module_classes[name] ELSE "FastQCModule"

\* <class>.from_module(module)
from_module(cls, module, parses) ==
    IF cls = "OverrepresentedSequencesModule"
    THEN OverrepresentedSequencesModule_from_module(module, parses)
    ELSE IF cls = "BasicStatisticsModule"
    THEN BasicStatisticsModule_from_module(module)
    ELSE FastQCModule_from_module(module)

Marker == <<">", ">">>
EndModule == <<"END_MODULE">>

\* An open that takes a missing status as the empty status.
open_module_lenient(l) ==
    LET res == split(l, TAB)
    IN  Return(FastQCModule("FastQCModule", res[1], None,
                            IF Len(res) < 2 THEN <<>> ELSE res[2]))

\* res = l.split("\t"); FastQCModule(name=res[0], status=res[1])
open_module(l) ==
    LET res == split(l, TAB)
    IN  IF Len(res) < 2 THEN Raise("IndexError")
        ELSE Return(FastQCModule("FastQCModule", res[1], None, res[2]))

\* The assertion compiled away.
assert_disabled(l) == TRUE

\* assert l == "END_MODULE"
assert_end_module(l) == l = EndModule

\* The lines joined with a space.
set_data_space_joined(m, lines) == [m EXCEPT !.data = join(lines, " ")]

\* mod.data = "\n".join(data_lines)
set_data(m, lines) == [m EXCEPT !.data = join(lines, NL)]

\* The accumulator kept over the close.
reset_data_lines_kept(lines) == lines

\* data_lines = []
reset_data_lines(lines) == <<>>

\* An insertion that forgets the other keys.
setitem_alone(d, k, v) == [x \in {k} |-> v]

\* An insertion that keeps the value a key already has.
setitem_keep_first(d, k, v) ==
    [x \in DOMAIN d \cup {k} |-> IF x \in DOMAIN d THEN d[x] ELSE v]

\* results.results[mod.name] = value
setitem(d, k, v) == [x \in DOMAIN d \cup {k} |-> IF x = k THEN v ELSE d[x]]

(***************************************************************************)
(* State.                                                                  *)
(***************************************************************************)
VARIABLES
    pc,          \* "reading": in the loop of parse_from_file; "returned";
                 \* "raised"; "call" / "done": a direct call of from_module
    exc,         \* the exception that ended the call, or "none"
    mod,         \* parse_from_file: the local mod (None or the open module)
    data_lines,  \* parse_from_file: the local data_lines
    results,     \* parse_from_file: results.modules, name -> module
    ret,         \* what parse_from_file returned: None until it returns
    lines_read,  \* history: the lines of the file read so far, as in the file
    closed,      \* history: the modules handed to from_module, in order
    built_from,  \* history: name -> index in closed of the module stored
    kv_module,   \* the argument of a direct BasicStatisticsModule.from_module
    kv_result,   \* its outcome
    status_out,  \* what status_dict returned: None until it is called
    analysis,    \* a FastQCAnalysis object and the call in progress on it
    parsers,     \* two calls of parse_from_file in progress: their locals
    heap,        \* the modules dicts of the FastQCResults objects created
    registry     \* FastQCResults.module_classes, as the two calls see it

vars == <<pc, exc, mod, data_lines, results, ret, lines_read, closed,
          built_from, kv_module, kv_result, status_out, analysis, parsers,
          heap, registry>>

\* The state of the objects no call has touched.
NoAnalysis == [pc |-> "new"]
NoParser == [pc |-> "new"]
Untouched ==
    /\ status_out = None
    /\ analysis = NoAnalysis
    /\ parsers = [i \in {1, 2} |-> NoParser]
    /\ heap = <<>>
    /\ registry = module_classes

(***************************************************************************)
(* Inputs.                                                                 *)
(***************************************************************************)
CustomName == <<"Custom">>
Header(name, status) == Marker \o name \o <<TAB>> \o status

ReportLines ==
    { Header(CustomName, <<"pass">>),
      Header(CustomName, <<"odd">>) \o <<" ">>,
      Header(BasicStatisticsName, <<"pass">>),
      Header(OverrepresentedName, <<"warn">>),
      Marker \o EndModule,
      Marker \o CustomName,
      <<"#", "#", "FastQC", TAB, "1", "2">>,
      <<"#", "Seq", TAB, "Count", " ">>,
      <<"Total", TAB, "3", "5", ".", "0">> }

KVLines ==
    { <<"#", "#", "FastQC", TAB, "0", ".", "1", "1", ".", "9">>,
      <<"#", "#", "FastQC", TAB, "1", "2">>,
      <<"#", "Encoding", TAB, "Sanger">>,
      <<"Total", TAB, "3", "5">>,
      <<"Total", TAB, "3", "5", ".", "0">>,
      <<"%GC", TAB, "3", "5", ".", "5">>,
      <<"FastQC", TAB, "x">>,
      <<"Filename">>,
      <<"File", TAB, "a", TAB, "b">> }

KVBodies ==
    { join(ls, NL) : ls \in UNION { [1..n -> KVLines] : n \in 0..MaxKVLines } }

(***************************************************************************)
(* FastQCResults.parse_from_file, one line of the file per step.           *)
(***************************************************************************)
Init ==
    /\ pc = "reading"
    /\ exc = "none"
    /\ mod = None
    /\ data_lines = <<>>
    /\ results = <<>>
    /\ ret = None
    /\ lines_read = <<>>
    /\ closed = <<>>
    /\ built_from = <<>>
    /\ kv_module = None
    /\ kv_result = None
    /\ Untouched

\* The body of the for loop on the line line; parses is what pandas decides
\* if the line closes an "Overrepresented sequences" module.
parse_from_file_line(line, parses) ==
    /\ pc = "reading"
    /\ Len(lines_read) < MaxLines
    /\ lines_read' = Append(lines_read, line)
    /\ UNCHANGED <<ret, kv_module, kv_result, status_out, analysis, parsers, heap,
                   registry>>
    /\ LET l == rstrip(line)
       IN  IF startswith(l, Marker)
           THEN LET l2 == removeprefix(l, Marker)
                IN  IF mod = None
                    THEN LET opened == open_module(l2)
                         IN  /\ IF opened.ok
                                THEN mod' = Some(opened.val) /\ UNCHANGED <<pc, exc>>
                                ELSE pc' = "raised" /\ exc' = opened.exc
                                     /\ UNCHANGED mod
                             /\ UNCHANGED <<data_lines, results, closed, built_from>>
                    ELSE IF ~assert_end_module(l2)
                    THEN /\ pc' = "raised" /\ exc' = "AssertionError"
                         /\ UNCHANGED <<mod, data_lines, results, closed, built_from>>
                    ELSE LET module == set_data(mod[1], data_lines)
                             built == from_module(module_classes_get(module.name),
                                                  module, parses)
                         IN  /\ data_lines' = reset_data_lines(data_lines)
                             /\ closed' = Append(closed, module)
                             /\ IF built.ok
                                THEN /\ results' = setitem(results, module.name, built.val)
                                     /\ built_from' = setitem(built_from, module.name,
                                                              Len(closed) + 1)
                                     /\ mod' = None
                                     /\ UNCHANGED <<pc, exc>>
                                ELSE /\ pc' = "raised" /\ exc' = built.exc
                                     /\ mod' = Some(module)
                                     /\ UNCHANGED <<results, built_from>>
           ELSE /\ data_lines' = Append(data_lines, l)
                /\ UNCHANGED <<pc, exc, mod, results, closed, built_from>>

\* The file has no more lines: return results.
parse_from_file_return ==
    /\ pc = "reading"
    /\ pc' = "returned"
    /\ ret' = Some(results)
    /\ UNCHANGED <<exc, mod, data_lines, results, lines_read, closed, built_from,
                   kv_module, kv_result, status_out, analysis, parsers, heap,
                   registry>>

\* A status_dict that gives every module the status "pass".
status_dict_all_pass(modules) ==
    [n \in {modules[k].name : k \in DOMAIN modules} |-> <<"pass">>]

\* FastQCResults.status_dict: {m.name: m.status for m in self.results.values()}
status_dict(modules) ==
    [n \in {modules[k].name : k \in DOMAIN modules} |->
        modules[CHOOSE k \in DOMAIN modules : modules[k].name = n].status]

\* status_dict() called on the FastQCResults that parse_from_file returned.
status_dict_call ==
    /\ pc = "returned"
    /\ status_out = None
    /\ status_out' = Some(status_dict(ret[1]))
    /\ UNCHANGED <<pc, exc, mod, data_lines, results, ret, lines_read, closed,
                   built_from, kv_module, kv_result, analysis, parsers, heap,
                   registry>>

Next ==
    \/ \E line \in ReportLines, parses \in BOOLEAN : parse_from_file_line(line, parses)
    \/ parse_from_file_return
    \/ status_dict_call

Spec == Init /\ [][Next]_vars

(***************************************************************************)
(* BasicStatisticsModule.from_module called on a module of any body.       *)
(***************************************************************************)
InitKV ==
    /\ pc = "call"
    /\ exc = "none"
    /\ mod = None
    /\ data_lines = <<>>
    /\ results = <<>>
    /\ ret = None
    /\ lines_read = <<>>
    /\ closed = <<>>
    /\ built_from = <<>>
    /\ kv_module \in { Some(FastQCModule("FastQCModule", BasicStatisticsName, body,
                                         status)) :
                         body \in KVBodies, status \in {<<"pass">>, <<"odd">>} }
    /\ kv_result = None
    /\ Untouched

BasicStatisticsModule_call ==
    /\ pc = "call"
    /\ LET built == BasicStatisticsModule_from_module(kv_module[1])
       IN  /\ kv_result' = Some(built)
           /\ exc' = IF built.ok THEN "none" ELSE built.exc
    /\ pc' = "done"
    /\ UNCHANGED <<mod, data_lines, results, ret, lines_read, closed, built_from,
                   kv_module, status_out, analysis, parsers, heap, registry>>

NextKV == BasicStatisticsModule_call

SpecKV == InitKV /\ [][NextKV]_vars

(***************************************************************************)
(* FastQCAnalysis: the constructor and the results property.  A read of    *)
(* results is a step, or, when the tool has to run, a step that starts the *)
(* tool (Popen), a step in which the tool exits (communicate), a step for  *)
(* each report file parsed, and a step that stores and returns the dict.   *)
(* What the tool exits with and what each parse_from_file call gives are   *)
(* the environment's choice.                                               *)
(***************************************************************************)
ReadFiles == {"a.fq", "b.fq"}
PathLists == UNION { [1..n -> ReadFiles] : n \in 0..MaxPaths }
OutDirs == {None, Some("out")}
Threads == {"1", "4"}
ReturnCodes == {0, 1}
ParseOutcomes == {Return("report1"), Return("report2"), Raise("AssertionError")}

\* Path(p): a path for a str, TypeError for None.
Path(p) == IF p = None THEN Raise("TypeError") ELSE Return(p)

\* FastQCAnalysis.__init__
FastQCAnalysis_init(read_paths, out_dir, threads) ==
    /\ analysis.pc = "new"
    /\ LET dir == Path(out_dir)
       IN  analysis' =
               IF dir.ok
               THEN [pc |-> "idle", read_paths |-> read_paths, out_dir |-> dir.val,
                     threads |-> threads, results |-> None,
                     returncode |-> None, todo |-> <<>>, partial |-> <<>>,
                     exc |-> "none", returned |-> None, command |-> None,
                     reads |-> 0, tool_runs |-> 0, parse_calls |-> 0,
                     run_parses |-> 0, arg_out_dir |-> out_dir]
               ELSE [pc |-> "init_raised", exc |-> dir.exc, arg_out_dir |-> out_dir]
    /\ UNCHANGED <<pc, exc, mod, data_lines, results, ret, lines_read, closed,
                   built_from, kv_module, kv_result, status_out, parsers, heap,
                   registry>>

\* FastQCAnalysis._build_fastqc_command
build_fastqc_command(a) ==
    <<"fastqc", "--extract", "-T", a.threads>>
        \o (IF a.out_dir # None THEN <<"-o", a.out_dir[1]>> ELSE <<>>)
        \o a.read_paths

\* A results property that runs the analysis at every read.
needs_run_always(cache) == TRUE

\* if self._results is None
needs_run(cache) == cache = None

\* A check of the exit status that never raises.
returncode_raises_never(rc) == FALSE

\* if proc.returncode
returncode_raises(rc) == rc # 0

\* FastQCAnalysis.results: the read begins.  With no results yet,
\* _get_results starts the tool; otherwise the read returns the results.
results_get ==
    /\ analysis.pc = "idle"
    /\ analysis.reads < MaxReads
    /\ analysis' =
           IF needs_run(analysis.results)
           THEN [analysis EXCEPT !.pc = "running",
                                 !.reads = @ + 1,
                                 !.tool_runs = @ + 1,
                                 !.run_parses = 0,
                                 !.returncode = None,
                                 !.exc = "none",
                                 !.returned = None,
                                 !.command = Some(build_fastqc_command(analysis))]
           ELSE [analysis EXCEPT !.reads = @ + 1,
                                 !.exc = "none",
                                 !.returned = analysis.results]
    /\ UNCHANGED <<pc, exc, mod, data_lines, results, ret, lines_read, closed,
                   built_from, kv_module, kv_result, status_out, parsers, heap,
                   registry>>

\* _get_results: proc.communicate() returns, the tool has exited with rc.
get_results_communicate(rc) ==
    /\ analysis.pc = "running"
    /\ analysis' =
           IF returncode_raises(rc)
           THEN [analysis EXCEPT !.pc = "idle",
                                 !.returncode = Some(rc),
                                 !.exc = "CalledProcessError"]
           ELSE [analysis EXCEPT !.pc = "parsing",
                                 !.returncode = Some(rc),
                                 !.todo = analysis.read_paths,
                                 !.partial = <<>>]
    /\ UNCHANGED <<pc, exc, mod, data_lines, results, ret, lines_read, closed,
                   built_from, kv_module, kv_result, status_out, parsers, heap,
                   registry>>

\* A _get_results that stores each report in self._results as it is parsed.
get_results_parse_stored_at_once(outcome) ==
    /\ analysis.pc = "parsing"
    /\ analysis.todo # <<>>
    /\ analysis' =
           IF outcome.ok
           THEN [analysis EXCEPT !.todo = Tail(@),
                                 !.partial = setitem(@, Head(analysis.todo), outcome.val),
                                 !.results = Some(setitem(analysis.partial,
                                                          Head(analysis.todo),
                                                          outcome.val)),
                                 !.parse_calls = @ + 1,
                                 !.run_parses = @ + 1]
           ELSE [analysis EXCEPT !.pc = "idle",
                                 !.exc = outcome.exc,
                                 !.parse_calls = @ + 1,
                                 !.run_parses = @ + 1]
    /\ UNCHANGED <<pc, exc, mod, data_lines, results, ret, lines_read, closed,
                   built_from, kv_module, kv_result, status_out, parsers, heap,
                   registry>>

\* _get_results: the dict comprehension parses the report of the next path.
get_results_parse(outcome) ==
    /\ analysis.pc = "parsing"
    /\ analysis.todo # <<>>
    /\ analysis' =
           IF outcome.ok
           THEN [analysis EXCEPT !.todo = Tail(@),
                                 !.partial = setitem(@, Head(analysis.todo), outcome.val),
                                 !.parse_calls = @ + 1,
                                 !.run_parses = @ + 1]
           ELSE [analysis EXCEPT !.pc = "idle",
                                 !.exc = outcome.exc,
                                 !.parse_calls = @ + 1,
                                 !.run_parses = @ + 1]
    /\ UNCHANGED <<pc, exc, mod, data_lines, results, ret, lines_read, closed,
                   built_from, kv_module, kv_result, status_out, parsers, heap,
                   registry>>

\* _get_results: the dict is assigned to self._results; results returns it.
get_results_store ==
    /\ analysis.pc = "parsing"
    /\ analysis.todo = <<>>
    /\ analysis' = [analysis EXCEPT !.pc = "idle",
                                    !.results = Some(analysis.partial),
                                    !.returned = Some(analysis.partial)]
    /\ UNCHANGED <<pc, exc, mod, data_lines, results, ret, lines_read, closed,
                   built_from, kv_module, kv_result, status_out, parsers, heap,
                   registry>>

InitAnalysis ==
    /\ pc = "none"
    /\ exc = "none"
    /\ mod = None
    /\ data_lines = <<>>
    /\ results = <<>>
    /\ ret = None
    /\ lines_read = <<>>
    /\ closed = <<>>
    /\ built_from = <<>>
    /\ kv_module = None
    /\ kv_result = None
    /\ Untouched

NextAnalysis ==
    \/ \E read_paths \in PathLists, out_dir \in OutDirs, threads \in Threads :
           FastQCAnalysis_init(read_paths, out_dir, threads)
    \/ results_get
    \/ \E rc \in ReturnCodes : get_results_communicate(rc)
    \/ \E outcome \in ParseOutcomes : get_results_parse(outcome)
    \/ get_results_store

SpecAnalysis == InitAnalysis /\ [][NextAnalysis]_vars

(***************************************************************************)
(* Two calls of parse_from_file, on two files, interleaved line by line.   *)
(* The locals of call i are the record parsers[i]; its FastQCResults       *)
(* object owns the dict heap[parsers[i].results].                          *)
(***************************************************************************)
TwoReportLines ==
    { Header(CustomName, <<"pass">>),
      Header(BasicStatisticsName, <<"pass">>),
      Marker \o EndModule,
      <<"#", "#", "FastQC", TAB, "1", "2">> }

\* A modules dict that all FastQCResults objects share.
new_modules_dict_shared(h) == 1

\* FastQCResults.__init__: self.modules = {}, a dict of its own.
new_modules_dict(h) == Len(h) + 1

\* results = FastQCResults(); mod = None; data_lines = []
parse_from_file_begin(i) ==
    /\ parsers[i].pc = "new"
    /\ heap' = Append(heap, <<>>)
    /\ parsers' = [parsers EXCEPT ![i] =
                      [pc |-> "reading", exc |-> "none", mod |-> None,
                       data_lines |-> <<>>, results |-> new_modules_dict(heap),
                       ret |-> None, lines_read |-> <<>>]]
    /\ UNCHANGED <<pc, exc, mod, data_lines, results, ret, lines_read, closed,
                   built_from, kv_module, kv_result, status_out, analysis, registry>>

\* The body of the for loop of parse_from_file on the locals p and the dict
\* modules of its FastQCResults, with classes as module_classes.
parse_line(p, modules, classes, line, parses) ==
    LET l == rstrip(line)
    IN  IF startswith(l, Marker)
        THEN LET l2 == removeprefix(l, Marker)
             IN  IF p.mod = None
                 THEN LET opened == open_module(l2)
                      IN  IF opened.ok
                          THEN [p |-> [p EXCEPT !.mod = Some(opened.val)],
                                modules |-> modules]
                          ELSE [p |-> [p EXCEPT !.pc = "raised", !.exc = opened.exc],
                                modules |-> modules]
                 ELSE IF ~assert_end_module(l2)
                 THEN [p |-> [p EXCEPT !.pc = "raised", !.exc = "AssertionError"],
                       modules |-> modules]
                 ELSE LET module == set_data(p.mod[1], p.data_lines)
                          cls == IF module.name \in DOMAIN classes
                                 THEN classes[module.name] ELSE "FastQCModule"
                          built == from_module(cls, module, parses)
                      IN  IF built.ok
                          THEN [p |-> [p EXCEPT !.mod = None,
                                                !.data_lines = reset_data_lines(@)],
                                modules |-> setitem(modules, module.name, built.val)]
                          ELSE [p |-> [p EXCEPT !.pc = "raised",
                                                !.exc = built.exc,
                                                !.mod = Some(module),
                                                !.data_lines = reset_data_lines(@)],
                                modules |-> modules]
        ELSE [p |-> [p EXCEPT !.data_lines = Append(@, l)], modules |-> modules]

\* Call i reads the next line of its file.
parse_from_file_line_of(i, line) ==
    /\ parsers[i].pc = "reading"
    /\ Len(parsers[i].lines_read) < MaxInterleavedLines
    /\ LET step == parse_line(parsers[i], heap[parsers[i].results], registry,
                              line, TRUE)
       IN  /\ parsers' = [parsers EXCEPT ![i] =
                             [step.p EXCEPT !.lines_read = Append(@, line)]]
           /\ heap' = [heap EXCEPT ![parsers[i].results] = step.modules]
    /\ UNCHANGED <<pc, exc, mod, data_lines, results, ret, lines_read, closed,
                   built_from, kv_module, kv_result, status_out, analysis, registry>>

\* The file of call i has no more lines: return results.
parse_from_file_return_of(i) ==
    /\ parsers[i].pc = "reading"
    /\ parsers' = [parsers EXCEPT ![i] =
                      [@ EXCEPT !.pc = "returned",
                                !.ret = Some(parsers[i].results)]]
    /\ UNCHANGED <<pc, exc, mod, data_lines, results, ret, lines_read, closed,
                   built_from, kv_module, kv_result, status_out, analysis, heap,
                   registry>>

NextTwo ==
    \E i \in {1, 2} :
        \/ parse_from_file_begin(i)
        \/ \E line \in TwoReportLines : parse_from_file_line_of(i, line)
        \/ parse_from_file_return_of(i)

SpecTwo == InitAnalysis /\ [][NextTwo]_vars

(***************************************************************************)
(* The report as the format describes it, read off the lines of the file.  *)
(***************************************************************************)
Last(s) == s[Len(s)]

\* A line of the file is a marker line if it begins with ">>".
IsMarkerLine(line) == Len(line) >= 2 /\ line[1] = ">" /\ line[2] = ">"
IsNotMarkerLine(line) == ~IsMarkerLine(line)
\* The line without its trailing whitespace.
Trimmed(line) ==
    LET n == IF \E i \in 1..Len(line) : line[i] \notin Whitespace
             THEN CHOOSE i \in 1..Len(line) :
                      /\ line[i] \notin Whitespace
                      /\ \A j \in (i + 1)..Len(line) : line[j] \in Whitespace
             ELSE 0
    IN  SubSeq(line, 1, n)
\* The terminator line ">>END_MODULE".
IsTerminatorLine(line) == Trimmed(line) = <<">", ">", "END_MODULE">>
\* A header line: a marker line carrying a name, a tab and a status.
IsHeaderLine(line) ==
    /\ IsMarkerLine(line)
    /\ ~IsTerminatorLine(line)
    /\ \E i \in 1..Len(Trimmed(line)) : line[i] = TAB
HeaderTokens(line) ==
    LET t == Trimmed(line)
        tabs == {i \in 1..Len(t) : t[i] = TAB}
        first == CHOOSE i \in tabs : \A j \in tabs : i <= j
        rest == {j \in tabs : j > first}
        stop == IF rest = {} THEN Len(t) + 1
                ELSE CHOOSE j \in rest : \A k \in rest : j <= k
    IN  [name |-> SubSeq(t, 3, first - 1), status |-> SubSeq(t, first + 1, stop - 1)]

\* The index in lines_read of the k-th marker line read.
MarkerLines == {i \in 1..Len(lines_read) : IsMarkerLine(lines_read[i])}
NthMarker(k) ==
    CHOOSE i \in MarkerLines : Cardinality({j \in MarkerLines : j <= i}) = k
\* The k-th module closed lies between its header line and its terminator line.
HeaderOf(k) == NthMarker(2 * k - 1)
TerminatorOf(k) == NthMarker(2 * k)
PreviousTerminatorOf(k) == IF k = 1 THEN 0 ELSE TerminatorOf(k - 1)
\* The non-marker lines strictly between lines a and b, trimmed, in order.
TrimmedLinesBetween(a, b) ==
    LET ls == SelectSeq(SubSeq(lines_read, a + 1, b - 1), IsNotMarkerLine)
    IN  [i \in 1..Len(ls) |-> Trimmed(ls[i])]
\* The step being taken reads a line.
ReadsLine == lines_read' # lines_read

(***************************************************************************)
(* C1: when the input ends while the parser is inside a module,            *)
(* parse_from_file fails and returns no Result Set.  The code returns the  *)
(* modules closed so far: TLC refutes this statement of the claim.         *)
(***************************************************************************)
C1_UnterminatedModuleFails == ~(pc = "returned" /\ mod # None)

(***************************************************************************)
(* C2 as claimed: the raw body of every closed module is the trimmed       *)
(* non-marker lines between its header line and its terminator line,       *)
(* joined with newline; lines read outside a module are in no body.        *)
(***************************************************************************)
C2_BodyIsLinesInsideModule ==
    \A k \in 1..Len(closed) :
        closed[k].data = join(TrimmedLinesBetween(HeaderOf(k), TerminatorOf(k)), NL)

(***************************************************************************)
(* C2 as amended: the raw body of every closed module is the trimmed       *)
(* non-marker lines between the previous terminator line (or the start of  *)
(* the report) and the module's own terminator line, in order, joined with *)
(* newline: the lines read outside a module since the last close are the   *)
(* head of the next module's body.                                         *)
(***************************************************************************)
C2_BodyIsLinesSincePreviousClose ==
    \A k \in 1..Len(closed) :
        closed[k].data =
            join(TrimmedLinesBetween(PreviousTerminatorOf(k), TerminatorOf(k)), NL)

\* A module was closed that has a line before its header and a line inside.
C2_Witness ==
    \E k \in 1..Len(closed) :
        /\ HeaderOf(k) > PreviousTerminatorOf(k) + 1
        /\ TerminatorOf(k) > HeaderOf(k) + 1
        /\ \E i \in (HeaderOf(k) + 1)..(TerminatorOf(k) - 1) :
               Trimmed(lines_read[i]) # lines_read[i]

(***************************************************************************)
(* C3: a header line read while a module is open makes parse_from_file     *)
(* fail; it opens no second module and does not close the open one.        *)
(***************************************************************************)
C3_NestedHeaderFails ==
    [][(pc = "reading" /\ mod # None /\ ReadsLine /\ IsHeaderLine(Last(lines_read')))
          => /\ pc' = "raised"
             /\ exc' = "AssertionError"
             /\ mod' = mod
             /\ results' = results
             /\ closed' = closed
             /\ ret' = None]_vars

C3_Witness ==
    /\ pc = "raised"
    /\ exc = "AssertionError"
    /\ IsHeaderLine(Last(lines_read))
    /\ mod # None
    /\ results # <<>>

(***************************************************************************)
(* C4: a terminator line read while no module is open makes                *)
(* parse_from_file fail; no module named END_MODULE is opened and nothing  *)
(* is inserted into the Result Set.                                        *)
(***************************************************************************)
C4_TerminatorOutsideFails ==
    [][(pc = "reading" /\ mod = None /\ ReadsLine /\ IsTerminatorLine(Last(lines_read')))
          => /\ pc' = "raised"
             /\ mod' = None
             /\ results' = results
             /\ closed' = closed
             /\ ret' = None]_vars

C4_Witness ==
    /\ pc = "raised"
    /\ exc = "IndexError"
    /\ IsTerminatorLine(Last(lines_read))
    /\ mod = None
    /\ results # <<>>

(***************************************************************************)
(* C5: closing a module whose name is not a key of the registry never      *)
(* fails, whatever its status and body, and stores under its name a        *)
(* FastQCModule whose data is the accumulated body unchanged.              *)
(***************************************************************************)
C5_UnmappedNameIsGeneric ==
    [][(/\ pc = "reading"
        /\ mod # None
        /\ ReadsLine
        /\ IsTerminatorLine(Last(lines_read'))
        /\ mod[1].name \notin {OverrepresentedName, BasicStatisticsName})
          => /\ pc' = "reading"
             /\ exc' = "none"
             /\ mod[1].name \in DOMAIN results'
             /\ results'[mod[1].name] =
                    [cls |-> "FastQCModule", name |-> mod[1].name,
                     data |-> join(data_lines, NL), status |-> mod[1].status]]_vars

\* A Generic module with a body of two lines and a status other than pass.
C5_Witness ==
    \E n \in DOMAIN results :
        /\ n \notin {OverrepresentedName, BasicStatisticsName}
        /\ results[n].cls = "FastQCModule"
        /\ results[n].status = <<"odd">>
        /\ \E i \in 1..Len(results[n].data) : results[n].data[i] = NL

(***************************************************************************)
(* C6: in every state, each entry of the Result Set is stored under its    *)
(* own name, and its name and status are the name and status tokens of the *)
(* header line that opened it, whichever class built it.                   *)
(***************************************************************************)
C6_NameAndStatusFromHeader ==
    \A n \in DOMAIN results :
        LET header == HeaderTokens(lines_read[HeaderOf(built_from[n])])
        IN  /\ results[n].name = n
            /\ header.name = n
            /\ results[n].status = header.status

\* Entries of two classes, one of them with a status other than pass/warn/fail.
C6_Witness ==
    \E n, m \in DOMAIN results :
        /\ results[n].cls # "FastQCModule"
        /\ results[m].status = <<"odd">>

(***************************************************************************)
(* C10: when parsing ends without error, the Result Set holds, for every   *)
(* name closed, the module built from the last closed occurrence of that   *)
(* name, and nothing else.                                                 *)
(***************************************************************************)
LastClosed(n) ==
    CHOOSE k \in 1..Len(closed) :
        /\ closed[k].name = n
        /\ \A j \in (k + 1)..Len(closed) : closed[j].name # n

C10_LastWriteWins ==
    pc \in {"reading", "returned"} =>
        /\ DOMAIN results = {closed[k].name : k \in 1..Len(closed)}
        /\ \A n \in DOMAIN results :
               results[n] = from_module(module_classes_get(n),
                                        closed[LastClosed(n)], TRUE).val
        /\ pc = "returned" => ret = Some(results)

\* A name was closed twice with different contents, and another name once.
C10_Witness ==
    /\ pc = "returned"
    /\ \E j, k \in 1..Len(closed) :
           /\ j < k
           /\ closed[j].name = closed[k].name
           /\ closed[j] # closed[k]
    /\ Cardinality(DOMAIN results) >= 2

(***************************************************************************)
(* The body handed to BasicStatisticsModule.from_module, as the format     *)
(* describes it.                                                           *)
(***************************************************************************)
BodyLines == splitlines(kv_module[1].data)
TabCount(line) == Cardinality({i \in 1..Len(line) : line[i] = TAB})
FirstTab(line) == CHOOSE i \in 1..Len(line) : line[i] = TAB /\ \A j \in 1..(i - 1) : line[j] # TAB
\* Key and value of a line with a tab: the text before and after the first tab.
KeyOf(line) == SubSeq(line, 1, FirstTab(line) - 1)
ValueOf(line) == SubSeq(line, FirstTab(line) + 1, Len(line))
BodyKeys == {KeyOf(BodyLines[i]) : i \in 1..Len(BodyLines)}
\* The value of the entry with key k: the last line with that key gives it.
EntryValue(k) ==
    ValueOf(BodyLines[CHOOSE i \in 1..Len(BodyLines) :
                          /\ KeyOf(BodyLines[i]) = k
                          /\ \A j \in (i + 1)..Len(BodyLines) : KeyOf(BodyLines[j]) # k])
IsCommentKey(k) == Len(k) >= 1 /\ k[1] = "#"
HasVersionEntry ==
    \E i \in 1..Len(BodyLines) :
        TabCount(BodyLines[i]) >= 1 /\ KeyOf(BodyLines[i]) = <<"#", "#", "FastQC">>
Succeeded == pc = "done" /\ kv_result[1].ok
Fields == kv_result[1].val.data
\* The text a field of the result was taken from.
SourceText(k) ==
    IF k = <<"FastQC">> THEN EntryValue(<<"#", "#", "FastQC">>) ELSE EntryValue(k)

(***************************************************************************)
(* C7 as claimed: BasicStatisticsModule.from_module fails if and only if   *)
(* some line of the body has no tab.                                       *)
(***************************************************************************)
C7_FailsIffLineLacksTab ==
    pc = "done" =>
        (~kv_result[1].ok <=> \E i \in 1..Len(BodyLines) : TabCount(BodyLines[i]) = 0)

(***************************************************************************)
(* C7 as amended: from_module fails if and only if some line of the body   *)
(* does not hold exactly one tab (ValueError) or, every line holding       *)
(* exactly one, no line has the key "##FastQC" (KeyError).                 *)
(***************************************************************************)
C7_FailsIffNotOneTabOrNoVersion ==
    pc = "done" =>
        LET ragged == \E i \in 1..Len(BodyLines) : TabCount(BodyLines[i]) # 1
        IN  /\ kv_result[1].ok <=> (~ragged /\ HasVersionEntry)
            /\ exc = "ValueError" <=> ragged
            /\ exc = "KeyError" <=> (~ragged /\ ~HasVersionEntry)

\* A body with the version entry whose lines all have a tab, one of them two.
C7_Witness ==
    /\ pc = "done"
    /\ ~kv_result[1].ok
    /\ HasVersionEntry
    /\ \A i \in 1..Len(BodyLines) : TabCount(BodyLines[i]) >= 1
    /\ \E i \in 1..Len(BodyLines) : TabCount(BodyLines[i]) = 2

(***************************************************************************)
(* C8: a surviving value that parses as an integer is stored as that       *)
(* integer; otherwise, one that parses as a floating-point number equal to *)
(* an integer (such as 35.0) is stored as that integer; otherwise the text *)
(* is kept.  The code keeps the text of 35.0: TLC refutes this statement.  *)
(***************************************************************************)
IsWholeFloat(v) ==
    float_parses(v) /\ float(v).num % Pow10(float(v).scale) = 0
ClaimedCoercion(v) ==
    IF int_parses(v) THEN IntVal(int(v))
    ELSE IF IsWholeFloat(v) THEN IntVal(float(v).num \div Pow10(float(v).scale))
    ELSE StrVal(v)

C8_WholeFloatStoredAsInteger ==
    Succeeded => \A k \in DOMAIN Fields : Fields[k] = ClaimedCoercion(SourceText(k))

(***************************************************************************)
(* C9 as claimed: for a body with a "##FastQC" entry, the fields hold the  *)
(* key "FastQC" with the value of that entry, no key that starts with "#", *)
(* and every key of the body that does not start with "#".                 *)
(***************************************************************************)
C9_KeysAsClaimed ==
    /\ FastQCKey \in DOMAIN Fields
    /\ \A k \in DOMAIN Fields : ~IsCommentKey(k)
    /\ \A k \in BodyKeys : ~IsCommentKey(k) => k \in DOMAIN Fields

OverrepresentedClosedEmpty ==
    /\ Len(lines_read) >= 2
    /\ IsTerminatorLine(Last(lines_read))
    /\ IsHeaderLine(lines_read[Len(lines_read) - 1])
    /\ HeaderTokens(lines_read[Len(lines_read) - 1]).name =
           <<"Overrepresented", " ", "sequences">>
TableIsNone ==
    /\ pc # "raised"
    /\ <<"Overrepresented", " ", "sequences">> \in DOMAIN results
    /\ results[<<"Overrepresented", " ", "sequences">>] =
           [cls |-> "OverrepresentedSequencesModule",
            name |-> <<"Overrepresented", " ", "sequences">>,
            data |-> None,
            status |-> HeaderTokens(lines_read[Len(lines_read) - 1]).status]

C11_EmptyBodyGivesNoTable == OverrepresentedClosedEmpty => TableIsNone

(***************************************************************************)
(* C11 as amended: the table is None when, besides, no non-marker line     *)
(* lies between the previous terminator line (or the start of the report)  *)
(* and the header: the header is the first line of the report or follows a *)
(* marker line.                                                            *)
(***************************************************************************)
NoLineBeforeHeader ==
    Len(lines_read) = 2 \/ IsMarkerLine(lines_read[Len(lines_read) - 2])

C11_EmptyAccumulatorGivesNoTable ==
    (OverrepresentedClosedEmpty /\ NoLineBeforeHeader) => TableIsNone

\* The empty module is closed after another module of the report.
C11_Witness ==
    /\ OverrepresentedClosedEmpty
    /\ Len(lines_read) >= 4
    /\ NoLineBeforeHeader
    /\ Cardinality(DOMAIN results) >= 2

(***************************************************************************)
(* C17 as claimed: each line of the body is split on its first tab only: a *)
(* line with two or more tabs gives the key before the first tab and the   *)
(* rest of the line as value, and does not make from_module fail.          *)
(***************************************************************************)
\* What the try block stores for the text v.
StoredFor(v) == IF int_parses(v) THEN IntVal(int(v)) ELSE StrVal(v)
EveryLineHasTab == \A i \in 1..Len(BodyLines) : TabCount(BodyLines[i]) >= 1
FieldsSplitOnFirstTab ==
    \A k \in DOMAIN Fields : Fields[k] = StoredFor(SourceText(k))

C17_SplitOnFirstTab ==
    (pc = "done" /\ EveryLineHasTab /\ HasVersionEntry) =>
        (kv_result[1].ok /\ FieldsSplitOnFirstTab)

(***************************************************************************)
(* C17 as amended: each line of the body is split on every tab: a line     *)
(* with exactly one tab gives the key before it and the value after it; a  *)
(* line with two or more tabs makes from_module fail with ValueError.      *)
(***************************************************************************)
C17_SplitOnEveryTab ==
    pc = "done" =>
        /\ (\E i \in 1..Len(BodyLines) : TabCount(BodyLines[i]) >= 2)
               => (~kv_result[1].ok /\ exc = "ValueError")
        /\ kv_result[1].ok =>
               /\ \A i \in 1..Len(BodyLines) : TabCount(BodyLines[i]) = 1
               /\ FieldsSplitOnFirstTab

\* A line with two tabs after a well-formed version line.
C17_Witness ==
    /\ pc = "done"
    /\ exc = "ValueError"
    /\ Len(BodyLines) >= 2
    /\ TabCount(BodyLines[1]) = 1
    /\ KeyOf(BodyLines[1]) = <<"#", "#", "FastQC">>
    /\ TabCount(BodyLines[Len(BodyLines)]) = 2
    /\ EveryLineHasTab

(***************************************************************************)
(* C18: the Result Set changes only on a step that reads a terminator line *)
(* while a module is open, and that step inserts or overwrites the one key *)
(* that is the open module's name; and while parsing goes on a module is   *)
(* open exactly when a header has been read whose terminator has not.      *)
(***************************************************************************)
\* Inside-module: the marker lines read so far are an odd number.
InsideModule == Cardinality(MarkerLines) % 2 = 1

C18_ResultSetChangesOnCloseOnly ==
    [][/\ (results' # results) =>
              /\ pc = "reading"
              /\ ReadsLine
              /\ IsTerminatorLine(Last(lines_read'))
              /\ mod # None
              /\ DOMAIN results' = DOMAIN results \cup {mod[1].name}
              /\ \A k \in DOMAIN results \ {mod[1].name} : results'[k] = results[k]
       /\ (pc' \in {"reading", "returned"}) => ((mod' # None) <=> InsideModule')]_vars

\* A third module is open after two modules of different names were stored.
C18_Witness ==
    /\ pc = "reading"
    /\ mod # None
    /\ Len(closed) >= 2
    /\ Cardinality(DOMAIN results) >= 2

(***************************************************************************)
(* C19: the accumulator is empty right after every close, so the bodies of *)
(* the modules closed, one after the other, followed by the accumulator,   *)
(* are the non-marker lines read, each once and in order: no line is in    *)
(* two bodies.                                                             *)
(***************************************************************************)
RECURSIVE BodiesUpTo(_)
BodiesUpTo(k) ==
    IF k = 0 THEN <<>> ELSE BodiesUpTo(k - 1) \o splitlines(closed[k].data)

C19_EachLineInOneBody ==
    /\ (/\ Len(closed) >= 1
        /\ IsTerminatorLine(Last(lines_read))
        /\ Cardinality(MarkerLines) = 2 * Len(closed)) => data_lines = <<>>
    /\ BodiesUpTo(Len(closed)) \o data_lines =
           TrimmedLinesBetween(0, Len(lines_read) + 1)

\* Two modules with a body each have been closed.
C19_Witness ==
    /\ Len(closed) >= 2
    /\ closed[1].data # <<>>
    /\ closed[2].data # <<>>
    /\ IsTerminatorLine(Last(lines_read))

(***************************************************************************)
(* C14: status_dict returns a mapping whose keys are the module names of   *)
(* the Result Set, each mapped to the status of the module stored under    *)
(* it, and the call leaves the Result Set as it was.                       *)
(***************************************************************************)
C14_StatusDictProjectsStatus ==
    [][(status_out' # status_out) =>
          /\ DOMAIN status_out'[1] = DOMAIN results
          /\ \A n \in DOMAIN results : status_out'[1][n] = results[n].status
          /\ results' = results
          /\ ret' = ret
          /\ ret' = Some(results')]_vars

\* The statuses of two modules of different status have been returned.
C14_Witness ==
    /\ status_out # None
    /\ \E n, m \in DOMAIN status_out[1] : status_out[1][n] # status_out[1][m]

(***************************************************************************)
(* C12: constructing a FastQCAnalysis does not run the tool; the first     *)
(* read of results runs it once; and once a read has returned results,     *)
(* every later read returns the same results with no run of the tool and   *)
(* no parse of a file.                                                     *)
(***************************************************************************)
Constructed == analysis.pc \notin {"new", "init_raised"}
\* The step being taken begins a read of results.
BeginsRead == Constructed /\ Constructed' /\ analysis'.reads = analysis.reads + 1

C12_LazyAndCached ==
    [][/\ (analysis.pc = "new" /\ Constructed') =>
              (analysis'.tool_runs = 0 /\ analysis'.results = None)
       /\ (BeginsRead /\ analysis.reads = 0) => analysis'.tool_runs = 1
       /\ (Constructed /\ analysis.pc = "idle" /\ analysis.results # None) =>
              /\ analysis'.results = analysis.results
              /\ analysis'.tool_runs = analysis.tool_runs
              /\ analysis'.parse_calls = analysis.parse_calls
              /\ BeginsRead => (analysis'.pc = "idle"
                                /\ analysis'.returned = analysis.results)]_vars

\* A third read has returned the results of the one run of the tool.
C12_Witness ==
    /\ Constructed
    /\ analysis.reads = 3
    /\ analysis.tool_runs = 1
    /\ analysis.pc = "idle"
    /\ analysis.results # None
    /\ analysis.returned = analysis.results
    /\ analysis.parse_calls = 2

(***************************************************************************)
(* C13: no report file is parsed before the tool has exited, and when the  *)
(* tool exits with a status other than zero an error is raised and no      *)
(* report file is parsed.                                                  *)
(***************************************************************************)
C13_ExitStatusGatesParsing ==
    Constructed =>
        /\ analysis.pc = "running" => analysis.run_parses = 0
        /\ analysis.run_parses > 0 => analysis.returncode = Some(0)
        /\ analysis.pc = "parsing" => analysis.returncode = Some(0)
        /\ (analysis.returncode # None /\ analysis.returncode # Some(0)) =>
               /\ analysis.run_parses = 0
               /\ analysis.pc = "idle"
               /\ analysis.exc = "CalledProcessError"
               /\ analysis.returned = None
               /\ analysis.results = None

\* The tool exits with 1 in a second run, after a run whose parse failed.
C13_Witness ==
    /\ Constructed
    /\ analysis.returncode = Some(1)
    /\ analysis.tool_runs = 2
    /\ analysis.parse_calls > 0

(***************************************************************************)
(* C16: a FastQCAnalysis can be constructed with out_dir None, and the     *)
(* command then has no "-o" option.  The constructor raises TypeError on   *)
(* Path(None): TLC refutes this statement of the claim.                    *)
(***************************************************************************)
C16_NoOutDirConstructs ==
    (analysis.pc # "new" /\ analysis.arg_out_dir = None) =>
        /\ Constructed
        /\ analysis.command # None =>
               \A i \in 1..Len(analysis.command[1]) : analysis.command[1][i] # "-o"

(***************************************************************************)
(* C20: the cache is written all at once: when the tool exits with a       *)
(* status other than zero or the parse of a report fails, the cache stays  *)
(* unset, the error reaches the caller, and the next read of results runs  *)
(* the tool again; a cache that is set holds a report for every read path. *)
(***************************************************************************)
C20_CacheAllOrNothing ==
    [][Constructed =>
          /\ (analysis.pc \in {"running", "parsing"}) => analysis.results = None
          /\ (analysis.pc \in {"running", "parsing"} /\ analysis'.exc # "none") =>
                 /\ analysis'.results = None
                 /\ analysis'.pc = "idle"
                 /\ analysis'.returned = None
          /\ (analysis.pc = "idle" /\ analysis.exc # "none") => analysis.results = None
          /\ (analysis.pc = "idle" /\ analysis.exc # "none" /\ BeginsRead) =>
                 (analysis'.tool_runs = analysis.tool_runs + 1
                  /\ analysis'.pc = "running")
          /\ analysis.results # None =>
                 DOMAIN analysis.results[1] =
                     {analysis.read_paths[i] : i \in 1..Len(analysis.read_paths)}]_vars

\* The parse of the second report failed, and the next read ran the tool again.
C20_Witness ==
    /\ Constructed
    /\ analysis.pc = "idle"
    /\ analysis.exc = "AssertionError"
    /\ analysis.partial # <<>>
    /\ analysis.results = None
    /\ analysis.tool_runs = 2

(***************************************************************************)
(* The step of parse_from_file and parse_line are the same function of the *)
(* locals and the line.                                                    *)
(***************************************************************************)
ParseLineAgreesWithStep ==
    [][ReadsLine =>
          \E parses \in BOOLEAN :
              LET step == parse_line([pc |-> pc, exc |-> exc, mod |-> mod,
                                      data_lines |-> data_lines],
                                     results, module_classes, Last(lines_read'),
                                     parses)
              IN  /\ step.p = [pc |-> pc', exc |-> exc', mod |-> mod',
                               data_lines |-> data_lines']
                  /\ step.modules = results']_vars

(***************************************************************************)
(* C15: when two parses are interleaved line by line in any order, each    *)
(* has at every step the locals and the Result Set it has when it reads    *)
(* the same lines alone, returns that Result Set, and the registry stays   *)
(* as it was.                                                              *)
(***************************************************************************)
\* The parse of the lines ls run alone, from the state parse_from_file starts in.
RECURSIVE Alone(_)
Alone(ls) ==
    IF ls = <<>>
    THEN [p |-> [pc |-> "reading", exc |-> "none", mod |-> None, data_lines |-> <<>>],
          modules |-> <<>>]
    ELSE LET before == Alone(SubSeq(ls, 1, Len(ls) - 1))
         IN  parse_line(before.p, before.modules, module_classes, ls[Len(ls)], TRUE)

C15_ParsesShareNoState ==
    /\ registry = module_classes
    /\ \A i \in {1, 2} :
           parsers[i].pc # "new" =>
               LET p == parsers[i]
                   alone == Alone(p.lines_read)
               IN  /\ heap[p.results] = alone.modules
                   /\ p.mod = alone.p.mod
                   /\ p.data_lines = alone.p.data_lines
                   /\ p.exc = alone.p.exc
                   /\ p.pc # "returned" => p.pc = alone.p.pc /\ p.ret = None
                   /\ p.pc = "returned" =>
                          alone.p.pc = "reading" /\ p.ret = Some(p.results)

\* Both parses are under way, each has stored a module, and they differ.
C15_Witness ==
    /\ parsers[1].pc = "reading"
    /\ parsers[2].pc = "reading"
    /\ heap[parsers[1].results] # <<>>
    /\ heap[parsers[2].results] # <<>>
    /\ heap[parsers[1].results] # heap[parsers[2].results]

====
